---- MODULE Spec2Model ----
(***************************************************************************)
(* Model of the multi-pass render loop of the two effect components:       *)
(*   CardAsciiPattern.tsx  (AsciiFluidScene, the 2D image card) and        *)
(*   Card3DAscii.tsx       (Scene3DAscii / Card3DAscii, the 3D card).      *)
(* One behaviour follows one mounted instance of one of the two cards.     *)
(* Pointer coordinates are in thousandths of the surface (1000 = 1.0).     *)
(***************************************************************************)
EXTENDS Integers, Sequences, FiniteSets, TLC

\* ------------------------------------------------------------------ bounds
MaxCoord == 2
MaxTime == 2
MaxPending == 2
MaxSteps == 3
MaxResizes == 2
MaxFrames == 3
MaxColumns == 7
FieldCells == 2

\* ------------------------------------------------------- program constants
Sentinel == -1000
DeadbandThreshold == 100
DeltaGain == 100
VelocityDissipation == 90
DensityDissipation2D == 96
DensityDissipation3D == 98
SimResolution == 128
DyeResolution == 512
LuminanceOffset == 850
BackgroundLength == 40
AltPatternAtlasColumns == 6
Dt == 16
FillValue == 500

Cards == {"CardAsciiPattern", "Card3DAscii"}
ShaderTypes == {"ascii", "crt"}
Coords == 0..MaxCoord
YCoords == {0, 2}
Positions == Coords \X YCoords
InactivePosition == <<Sentinel, Sentinel>>

\* What (e.clientX - rect.left) / rect.width can be when the cached rect is stale.
RawCoords == Coords \cup {-1, 1001}

VelocityBuffers == {"v0", "v1"}
DensityBuffers == {"d0", "d1"}
FluidBuffers == VelocityBuffers \cup DensityBuffers

Abs(x) == IF x < 0 THEN -x ELSE x

VARIABLES
  card,                 \* which component this instance is
  velocityFBO,          \* [read, write] of the velocity DoubleFBO
  densityFBO,           \* [read, write] of the density DoubleFBO
  content,              \* per fluid buffer: the passes that produced its field
  uniforms,             \* uniform values and fluidMesh.material that persist between frames
  gl,                   \* renderer: current render target and autoClear
  densityInitialized,   \* densityInitializedRef.current
  mouse,                \* mouseRef.current (2D) / mouseUVRef.current (3D)
  lastMouse,            \* lastMouseRef.current
  isMouseInit,          \* isMouseInitRef.current
  isHovered,            \* isHoveredRef.current (2D) / committed isCardHovered prop (3D)
  hoverUpdates,         \* setIsHovered calls not yet rendered (3D)
  pointerInside,        \* environment: the pointer is over the surface
  shaderType,           \* prop shaderType (3D)
  enablePainting,       \* prop enablePainting (3D) / enableInteractivity (2D)
  imageTexture,         \* state imageTexture is non-null (2D)
  patternAtlas,         \* state patternAtlas is non-null
  altPatternAtlas,      \* state altPatternAtlas is non-null
  time,                 \* timeRef.current in ticks of 0.05
  leftSinceRecord,      \* history: a mouseleave happened after lastMouseRef was last written
  passes,               \* what the most recent rendered frame did, in order
  config,               \* the remaining props of the card (tileSize, fade, atlas choice)
  size,                 \* useThree().size: logical viewport <<width, height>>
  pixelRatio,           \* window.devicePixelRatio, in quarters (4 = 1.0)
  mounted,              \* the component is mounted
  renderTargets,        \* sceneFBO and patternFBO of the last render: generation, width, height
  allocated,            \* every render target this instance has constructed
  disposed,             \* the render targets dispose() was called on
  tile,                 \* the tile the pattern shader shaded last: inputs and results
  prevTile,             \* the tile shaded before it
  velocityField,        \* texels of velocityFBO.read along one row, in thousandths
  densityField,         \* texels of densityFBO.read along one row, in thousandths
  rounding,             \* how the GPU rounds a value stored to a half-float target
  pending,              \* loader.load calls whose callback has not run: <<state slot, url>>
  loaded                \* per state slot, the url of the texture it holds ("none": null)

vars == <<card, velocityFBO, densityFBO, content, uniforms, gl, densityInitialized,
          mouse, lastMouse, isMouseInit, isHovered, hoverUpdates, pointerInside,
          shaderType, enablePainting, imageTexture, patternAtlas, altPatternAtlas,
          time, leftSinceRecord, passes, config, size, pixelRatio, mounted,
          renderTargets, allocated, disposed, tile, prevTile,
          velocityField, densityField, rounding, pending, loaded>>

resourceVars == <<size, pixelRatio, mounted, renderTargets, allocated, disposed>>
fragmentVars == <<tile, prevTile>>
fieldVars == <<velocityField, densityField, rounding>>
loaderVars == <<pending, loaded>>

\* ------------------------------------------------------------- DoubleFBO
DoubleFBO(a, b) == [read |-> a, write |-> b]

\* Mutant: the exchange without the temporary, both roles end on one buffer.
swap_withoutTemp(fbo) == [read |-> fbo.write, write |-> fbo.write]

\* Mutant: the temporary is written back to the wrong role.
swap_losesWriteBuffer(fbo) == [read |-> fbo.read, write |-> fbo.read]

swap(fbo) == [read |-> fbo.write, write |-> fbo.read]

\* --------------------------------------------------- renderer primitives
\* The frame handler is a function of a record m holding everything it mutates.
setRenderTarget(m, t) == [m EXCEPT !.gl.target = t]

\* Math.round(size * 2 * pixelRatio), the pixel ratio being q quarters.
RenderSize(logical, q) == (logical * q + 1) \div 2

\* Mutant: the per-frame resize of a render target is dropped.
setSize_keepsOldSize(m, name, width, height) == m

\* WebGLRenderTarget.setSize on one of the memoised targets.
setSize(m, name, width, height) ==
  [m EXCEPT !.renderTargets[name].width = width, !.renderTargets[name].height = height]

ContentOf(m, b) == IF b \in FluidBuffers THEN m.content[b] ELSE <<>>

\* Buffers whose textures the material on the rendered mesh samples.
MaterialInputs(u, material) ==
  CASE material = "splat"     -> {u.uTarget}
    [] material = "advection" -> {u.uVelocity, u.uSource}
    [] material = "ascii"     -> {u.uImage, u.uDeformTexture}
    [] material = "custom"    -> {u.customImage}
    [] material = "display"   -> {u.uMap}
    [] OTHER                  -> {}

\* Field written by a fluid shader, as the chain of passes that produced it.
ShaderOutput(m, material) ==
  CASE material = "fill"      -> <<"fill">>
    [] material = "splat"     -> Append(ContentOf(m, m.uniforms.uTarget), "splat")
    [] material = "advection" -> Append(ContentOf(m, m.uniforms.uSource), "advect")
    [] OTHER                  -> <<>>

\* The fields the pass samples from fluid buffers, as (buffer, field) pairs.
SampledFields(m, material) ==
  {<<b, m.content[b]>> : b \in MaterialInputs(m.uniforms, material) \cap FluidBuffers}

render(m, material) ==
  LET t == m.gl.target
      ev == [ev |-> "render", what |-> material, target |-> t,
             inputs |-> MaterialInputs(m.uniforms, material),
             velocityFBO |-> m.velocityFBO, densityFBO |-> m.densityFBO,
             read |-> SampledFields(m, material), move |-> "none", stale |-> FALSE,
             renderTargets |-> m.renderTargets,
             uBaseTileSize |-> m.uniforms.uBaseTileSize, autoClear |-> m.gl.autoClear]
  IN [m EXCEPT !.passes = Append(@, ev),
               !.content = IF t \in FluidBuffers
                             THEN [@ EXCEPT ![t] = ShaderOutput(m, material)]
                             ELSE @]

SwapEvent(m, which) ==
  [ev |-> "swap", what |-> which, target |-> "null", inputs |-> {},
   velocityFBO |-> m.velocityFBO, densityFBO |-> m.densityFBO,
   read |-> {}, move |-> "none", stale |-> FALSE,
   renderTargets |-> m.renderTargets, uBaseTileSize |-> m.uniforms.uBaseTileSize,
   autoClear |-> m.gl.autoClear]

swapVelocity(m) ==
  [m EXCEPT !.velocityFBO = swap(@), !.passes = Append(@, SwapEvent(m, "velocityFBO"))]

swapDensity(m) ==
  [m EXCEPT !.densityFBO = swap(@), !.passes = Append(@, SwapEvent(m, "densityFBO"))]

\* gl.render(fluidScene, quadCamera): the quad carries fluidMesh.material.
renderFluid(m) == render(m, m.uniforms.fluidMeshMaterial)

\* ------------------------------------------------------- blocks of useFrame
\* Mutant: only one slot of the density pair is filled.
DensityInitialization_oneSlot(m) ==
  LET m1 == [m EXCEPT !.densityInitialized = TRUE,
                      !.uniforms.fluidMeshMaterial = "fill"]
  IN swapDensity(renderFluid(setRenderTarget(m1, m1.densityFBO.write)))

\* Density initialisation with the fill material, 3D card only.
DensityInitialization(m) ==
  LET m1 == [m EXCEPT !.densityInitialized = TRUE,
                      !.uniforms.fluidMeshMaterial = "fill"]
      m2 == swapDensity(renderFluid(setRenderTarget(m1, m1.densityFBO.write)))
  IN swapDensity(renderFluid(setRenderTarget(m2, m2.densityFBO.write)))

DeltaOf(cur, last) == (cur - last) * DeltaGain

\* Mutant: any step of an initialised pointer splats.
ExceedsDeadband_always(mouseNow, last) ==
  \/ Abs(DeltaOf(mouseNow[1], last[1])) >= 0
  \/ Abs(DeltaOf(mouseNow[2], last[2])) >= 0

ExceedsDeadband(mouseNow, last) ==
  \/ Abs(DeltaOf(mouseNow[1], last[1])) > DeadbandThreshold
  \/ Abs(DeltaOf(mouseNow[2], last[2])) > DeadbandThreshold

\* Velocity splat then density splat.
SplatPasses(m) ==
  LET m1 == [m EXCEPT !.uniforms.uTarget = m.velocityFBO.read,
                      !.uniforms.fluidMeshMaterial = "splat"]
      m2 == swapVelocity(renderFluid(setRenderTarget(m1, m1.velocityFBO.write)))
      m3 == [m2 EXCEPT !.uniforms.uTarget = m2.densityFBO.read]
  IN swapDensity(renderFluid(setRenderTarget(m3, m3.densityFBO.write)))

\* Consumption of the pointer position inside the hover guard.
\* How far the pointer moved since the previous step, as the log records it.
MoveClass(deltaX, deltaY) ==
  IF deltaX = 0 /\ deltaY = 0 THEN "zero"
  ELSE IF Abs(deltaX) <= DeadbandThreshold /\ Abs(deltaY) <= DeadbandThreshold THEN "small"
  ELSE "large"

PointerEvent(m, which, d) ==
  [ev |-> "pointer", what |-> which, target |-> "null", inputs |-> {},
   velocityFBO |-> m.velocityFBO, densityFBO |-> m.densityFBO,
   read |-> {}, move |-> d, stale |-> m.leftSinceRecord,
   renderTargets |-> m.renderTargets, uBaseTileSize |-> m.uniforms.uBaseTileSize,
   autoClear |-> m.gl.autoClear]

\* Mutant: the previous position advances only when a splat ran.
PointerStep_advancesOnSplat(m, mouseNow) ==
  IF ~m.isMouseInit
    THEN [m EXCEPT !.isMouseInit = TRUE, !.lastMouse = mouseNow,
                   !.leftSinceRecord = FALSE,
                   !.passes = Append(@, PointerEvent(m, "record", "none"))]
    ELSE LET deltaX == DeltaOf(mouseNow[1], m.lastMouse[1])
             deltaY == DeltaOf(mouseNow[2], m.lastMouse[2])
             m0 == [m EXCEPT !.passes =
                      Append(@, PointerEvent(m, "delta", MoveClass(deltaX, deltaY)))]
         IN IF ExceedsDeadband(mouseNow, m.lastMouse)
              THEN [SplatPasses(m0) EXCEPT !.lastMouse = mouseNow,
                                           !.leftSinceRecord = FALSE]
              ELSE m0

PointerStep(m, mouseNow) ==
  IF ~m.isMouseInit
    THEN [m EXCEPT !.isMouseInit = TRUE, !.lastMouse = mouseNow,
                   !.leftSinceRecord = FALSE,
                   !.passes = Append(@, PointerEvent(m, "record", "none"))]
    ELSE LET deltaX == DeltaOf(mouseNow[1], m.lastMouse[1])
             deltaY == DeltaOf(mouseNow[2], m.lastMouse[2])
             m0 == [m EXCEPT !.passes =
                      Append(@, PointerEvent(m, "delta", MoveClass(deltaX, deltaY)))]
             m1 == IF ExceedsDeadband(mouseNow, m.lastMouse) THEN SplatPasses(m0) ELSE m0
         IN [m1 EXCEPT !.lastMouse = mouseNow, !.leftSinceRecord = FALSE]

\* Mutant: the density pass samples the buffer it renders into.
Advection_readsWriteBuffer(m, velocityDissipation, densityDissipation) ==
  LET m1 == [m EXCEPT !.uniforms.uVelocity = m.velocityFBO.read,
                      !.uniforms.uSource = m.velocityFBO.read,
                      !.uniforms.dissipation = velocityDissipation,
                      !.uniforms.fluidMeshMaterial = "advection"]
      m2 == swapVelocity(renderFluid(setRenderTarget(m1, m1.velocityFBO.write)))
      m3 == [m2 EXCEPT !.uniforms.uSource = m2.densityFBO.write,
                       !.uniforms.dissipation = densityDissipation]
  IN swapDensity(renderFluid(setRenderTarget(m3, m3.densityFBO.write)))

\* Mutant: the density pair is not swapped after its advection pass.
Advection_noDensitySwap(m, velocityDissipation, densityDissipation) ==
  LET m1 == [m EXCEPT !.uniforms.uVelocity = m.velocityFBO.read,
                      !.uniforms.uSource = m.velocityFBO.read,
                      !.uniforms.dissipation = velocityDissipation,
                      !.uniforms.fluidMeshMaterial = "advection"]
      m2 == swapVelocity(renderFluid(setRenderTarget(m1, m1.velocityFBO.write)))
      m3 == [m2 EXCEPT !.uniforms.uSource = m2.densityFBO.read,
                       !.uniforms.dissipation = densityDissipation]
  IN renderFluid(setRenderTarget(m3, m3.densityFBO.write))

\* Velocity advection then density advection.
Advection(m, velocityDissipation, densityDissipation) ==
  LET m1 == [m EXCEPT !.uniforms.uVelocity = m.velocityFBO.read,
                      !.uniforms.uSource = m.velocityFBO.read,
                      !.uniforms.dissipation = velocityDissipation,
                      !.uniforms.fluidMeshMaterial = "advection"]
      m2 == swapVelocity(renderFluid(setRenderTarget(m1, m1.velocityFBO.write)))
      m3 == [m2 EXCEPT !.uniforms.uSource = m2.densityFBO.read,
                       !.uniforms.dissipation = densityDissipation]
  IN swapDensity(renderFluid(setRenderTarget(m3, m3.densityFBO.write)))

\* Render of the 3D model scene into sceneFBO.
CaptureScene(m, viewport) ==
  LET m1 == setSize(m, "sceneFBO", viewport[1] * 2, viewport[2] * 2)
  IN render(setRenderTarget(m1, "sceneFBO"), "model")

\* Pattern pass into patternFBO and binding of the display map.
\* tileSize is the value the frame assigns to uBaseTileSize (the 2D card
\* assigns none and keeps the one its material was built with).
AsciiComposite(m, image, tileSize, viewport, q) ==
  LET m1 == [m EXCEPT !.uniforms.uImage = image,
                      !.uniforms.uDeformTexture = m.densityFBO.read,
                      !.uniforms.uBaseTileSize = tileSize]
      m2 == setSize(m1, "patternFBO", RenderSize(viewport[1], q), RenderSize(viewport[2], q))
      m3 == render(setRenderTarget(m2, "patternFBO"), "ascii")
  IN [m3 EXCEPT !.uniforms.uMap = "patternFBO"]

\* Single pass of one of the alternate filters into patternFBO.
CustomComposite(m, tileSize, viewport, q) ==
  LET m1 == [m EXCEPT !.uniforms.customImage = "sceneFBO",
                      !.uniforms.uBaseTileSize = tileSize]
      m2 == setSize(m1, "patternFBO", RenderSize(viewport[1], q), RenderSize(viewport[2], q))
      m3 == render(setRenderTarget(m2, "patternFBO"), "custom")
  IN [m3 EXCEPT !.uniforms.uMap = "patternFBO"]

\* Mutant: autoClear stays off after the blit.
Display_keepsAutoClearOff(m, prevTarget, prevAutoClear) ==
  LET m1 == [setRenderTarget(m, "null") EXCEPT !.gl.autoClear = FALSE]
      m2 == render(m1, "display")
  IN setRenderTarget(m2, prevTarget)

\* Blit to the screen with autoClear off, then restore of the renderer.
Display(m, prevTarget, prevAutoClear) ==
  LET m1 == [setRenderTarget(m, "null") EXCEPT !.gl.autoClear = FALSE]
      m2 == render(m1, "display")
  IN [setRenderTarget(m2, prevTarget) EXCEPT !.gl.autoClear = prevAutoClear]

\* ---------------------------------------------------------------- useFrame
\* customShaderMaterial is non-null for every filter that shaderMap holds.
customShaderMaterial(type) == type # "ascii"

\* Early return of AsciiFluidScene's useFrame.
TexturesMissing2D(image, atlas, altAtlas) == ~image \/ ~atlas \/ ~altAtlas

\* Mutant: the early return forgets the alternate atlas.
TexturesMissing3D_ignoresAltAtlas(type, atlas, altAtlas) ==
  \/ type = "ascii" /\ ~atlas
  \/ type # "ascii" /\ ~customShaderMaterial(type)

\* Early returns of Scene3DAscii's useFrame.
TexturesMissing3D(type, atlas, altAtlas) ==
  \/ type = "ascii" /\ (~atlas \/ ~altAtlas)
  \/ type # "ascii" /\ ~customShaderMaterial(type)

\* Guard of the density initialisation.
ShouldInitDensity(type, initialized) == type = "ascii" /\ ~initialized

\* Guards of the fluid simulation block.
ShouldSimulate2D(enableInteractivity, hovered) == enableInteractivity /\ hovered

\* Mutant: the simulation block is not restricted to the hovered card.
ShouldSimulate3D_ignoresHover(type, painting, isCardHovered, mouseUV) ==
  type = "ascii" /\ painting /\ mouseUV[1] >= 0 /\ mouseUV[2] >= 0

\* Mutant: the simulation block is not restricted to the pattern effect.
ShouldSimulate3D_anyShader(type, painting, isCardHovered, mouseUV) ==
  painting /\ isCardHovered /\ mouseUV[1] >= 0 /\ mouseUV[2] >= 0

ShouldSimulate3D(type, painting, isCardHovered, mouseUV) ==
  type = "ascii" /\ painting /\ isCardHovered /\ mouseUV[1] >= 0 /\ mouseUV[2] >= 0

AsciiFluidScene_useFrame(m, mouseNow, hovered, enableInteractivity, image, atlas, altAtlas, viewport, q) ==
  IF TexturesMissing2D(image, atlas, altAtlas) THEN m
  ELSE
    LET m0 == [m EXCEPT !.time = @ + 1, !.passes = <<>>]
        prevTarget == m0.gl.target
        prevAutoClear == m0.gl.autoClear
        m1 == IF ShouldSimulate2D(enableInteractivity, hovered)
                THEN PointerStep(m0, mouseNow) ELSE m0
        m2 == Advection(m1, VelocityDissipation, DensityDissipation2D)
        m3 == AsciiComposite(m2, "imageTexture", m2.uniforms.uBaseTileSize, viewport, q)
    IN Display(m3, prevTarget, prevAutoClear)

Scene3DAscii_useFrame(m, mouseUV, isCardHovered, painting, type, atlas, altAtlas, cfg, viewport, q) ==
  IF TexturesMissing3D(type, atlas, altAtlas) THEN m
  ELSE
    LET m0 == [m EXCEPT !.time = @ + 1, !.passes = <<>>]
        prevTarget == m0.gl.target
        prevAutoClear == m0.gl.autoClear
        m1 == IF ShouldInitDensity(type, m0.densityInitialized)
                THEN DensityInitialization(m0) ELSE m0
        m2 == IF ShouldSimulate3D(type, painting, isCardHovered, mouseUV)
                THEN Advection(PointerStep(m1, mouseUV),
                               cfg.velocityDissipation, cfg.densityDissipation)
                ELSE m1
        m3 == CaptureScene(m2, viewport)
        m4 == IF type = "ascii"
                THEN AsciiComposite(m3, "sceneFBO", cfg.tileSize, viewport, q)
                ELSE CustomComposite(m3, cfg.tileSize, viewport, q)
    IN Display(m4, prevTarget, prevAutoClear)

\* Everything a frame can mutate, gathered for the frame functions.
Machine ==
  [velocityFBO |-> velocityFBO, densityFBO |-> densityFBO, content |-> content,
   uniforms |-> uniforms, gl |-> gl, densityInitialized |-> densityInitialized,
   lastMouse |-> lastMouse, isMouseInit |-> isMouseInit, time |-> time,
   leftSinceRecord |-> leftSinceRecord, passes |-> passes,
   renderTargets |-> renderTargets]

useFrame ==
  IF card = "CardAsciiPattern"
    THEN AsciiFluidScene_useFrame(Machine, mouse, isHovered, enablePainting,
                                  imageTexture, patternAtlas, altPatternAtlas,
                                  size, pixelRatio)
    ELSE Scene3DAscii_useFrame(Machine, mouse, isHovered, enablePainting, shaderType,
                               patternAtlas, altPatternAtlas, config, size, pixelRatio)

\* ------------------------------------------------------------------ actions
\* Props a card is rendered with when the caller passes none.
DefaultConfig(c) ==
  IF c = "CardAsciiPattern"
    THEN [tileSize |-> 8, useBlockyPattern |-> FALSE, enableFadeTransition |-> TRUE,
          fadeThreshold |-> 100, fadeWidth |-> 50,
          velocityDissipation |-> VelocityDissipation,
          densityDissipation |-> DensityDissipation2D,
          luminanceOffset |-> 850, invertLuminance |-> TRUE, imageUrl |-> "image-a"]
    ELSE [tileSize |-> 6, useBlockyPattern |-> TRUE, enableFadeTransition |-> FALSE,
          fadeThreshold |-> 100, fadeWidth |-> 50,
          velocityDissipation |-> VelocityDissipation,
          densityDissipation |-> DensityDissipation3D,
          luminanceOffset |-> 850, invertLuminance |-> TRUE]

\* The render targets the useMemo blocks construct for a viewport.
TargetNames(c) ==
  FluidBuffers \cup {"patternFBO"} \cup (IF c = "Card3DAscii" THEN {"sceneFBO"} ELSE {})

NewTarget(name, generation, viewport, q) ==
  [generation |-> generation,
   width |-> IF name \in VelocityBuffers THEN SimResolution
             ELSE IF name \in DensityBuffers THEN DyeResolution
             ELSE IF name = "sceneFBO" THEN viewport[1] * 2
             ELSE RenderSize(viewport[1], q),
   height |-> IF name \in VelocityBuffers THEN SimResolution
              ELSE IF name \in DensityBuffers THEN DyeResolution
              ELSE IF name = "sceneFBO" THEN viewport[2] * 2
              ELSE RenderSize(viewport[2], q)]

NoTile ==
  [branch |-> "none", color |-> <<0, 0, 0>>, timeOffset |-> 0, paintStrength |-> 0,
   lum |-> 0, patternIndex |-> -1, regularAtlasIndex |-> -1, altPatternIndex |-> -1,
   altAtlasIndex |-> -1, transitionFactor |-> 0, columns |-> 0, samples |-> {}]

\* The state slots textures are loaded into.
TextureSlots == {"imageTexture", "patternAtlas", "altPatternAtlas"}

\* The loader.load calls the texture effect of the card issues for its props.
Requests(c, cfg) ==
  IF c = "CardAsciiPattern"
    THEN {<<"imageTexture", cfg.imageUrl>>, <<"patternAtlas", "pat3">>,
          <<"altPatternAtlas", "pat7-colored">>}
    ELSE {<<"patternAtlas", IF cfg.useBlockyPattern THEN "pat-cards" ELSE "pat3">>,
          <<"altPatternAtlas",
            IF cfg.useBlockyPattern THEN "pat-strip-blue" ELSE "pat7-colored">>}

\* Refs and state of a freshly mounted scene component.
InitScene ==
  /\ velocityFBO = DoubleFBO("v0", "v1")
  /\ densityFBO = DoubleFBO("d0", "d1")
  /\ content = [b \in FluidBuffers |-> <<>>]
  /\ uniforms = [uTarget |-> "none", uVelocity |-> "none", uSource |-> "none",
                 dissipation |-> 100, uImage |-> "none", uDeformTexture |-> "none",
                 customImage |-> "none", uMap |-> "none", fluidMeshMaterial |-> "splat",
                 uBaseTileSize |-> config.tileSize]
  /\ gl = [target |-> "null", autoClear |-> TRUE]
  /\ densityInitialized = FALSE
  /\ mouse = InactivePosition
  /\ lastMouse = InactivePosition
  /\ isMouseInit = FALSE
  /\ isHovered = FALSE
  /\ hoverUpdates = <<>>
  /\ pointerInside = FALSE
  /\ imageTexture = FALSE
  /\ patternAtlas = FALSE
  /\ altPatternAtlas = FALSE
  /\ time = 0
  /\ leftSinceRecord = FALSE
  /\ passes = <<>>
  /\ mounted = TRUE
  /\ renderTargets = [n \in TargetNames(card) |-> NewTarget(n, 0, size, pixelRatio)]
  /\ allocated = {<<n, 0>> : n \in TargetNames(card)}
  /\ disposed = {}
  /\ pending = Requests(card, config)
  /\ loaded = [slot \in TextureSlots |-> "none"]

\* Nothing shaded yet, no field sampled.
InitFragment == tile = NoTile /\ prevTile = NoTile

InitFields == velocityField = <<>> /\ densityField = <<>> /\ rounding = "nearest"

Init ==
  /\ card \in Cards
  /\ shaderType \in (IF card = "Card3DAscii" THEN ShaderTypes ELSE {"ascii"})
  /\ enablePainting \in BOOLEAN
  /\ config = DefaultConfig(card)
  /\ size = <<4, 3>>
  /\ pixelRatio = 4
  /\ InitScene
  /\ InitFragment
  /\ InitFields

\* One call of the frame callback: the refs and objects take the values the
\* callback leaves them with.
RunFrame ==
  /\ LET m == useFrame IN
       /\ velocityFBO' = m.velocityFBO
       /\ densityFBO' = m.densityFBO
       /\ content' = m.content
       /\ uniforms' = m.uniforms
       /\ gl' = m.gl
       /\ densityInitialized' = m.densityInitialized
       /\ lastMouse' = m.lastMouse
       /\ isMouseInit' = m.isMouseInit
       /\ time' = m.time
       /\ leftSinceRecord' = m.leftSinceRecord
       /\ passes' = m.passes
       /\ renderTargets' = m.renderTargets
  /\ UNCHANGED <<card, mouse, isHovered, hoverUpdates, pointerInside, shaderType,
                 enablePainting, imageTexture, patternAtlas, altPatternAtlas>>
  /\ UNCHANGED <<config, size, pixelRatio, mounted, allocated, disposed>>
  /\ UNCHANGED <<fragmentVars, fieldVars, loaderVars>>

Frame ==
  /\ mounted
  /\ time < MaxTime
  /\ RunFrame

\* Mutant: the position is stored as computed from the cached rect.
Clamp01_unclamped(x) == x

Clamp01(x) == IF x < 0 THEN 0 ELSE IF x > 1000 THEN 1000 ELSE x

\* canvas 'mousemove' listener of AsciiFluidScene
AsciiFluidScene_handleMouseMove ==
  /\ card = "CardAsciiPattern"
  /\ \E p \in Positions :
       /\ mouse' = p
       /\ isHovered' = TRUE
       /\ pointerInside' = TRUE
  /\ UNCHANGED <<card, velocityFBO, densityFBO, content, uniforms, gl, densityInitialized,
                 lastMouse, isMouseInit, hoverUpdates, shaderType, enablePainting,
                 imageTexture, patternAtlas, altPatternAtlas, time, leftSinceRecord, passes>>
  /\ UNCHANGED <<config, resourceVars, fragmentVars, fieldVars, loaderVars>>

\* canvas 'mouseleave' listener of AsciiFluidScene
AsciiFluidScene_handleMouseLeave ==
  /\ card = "CardAsciiPattern"
  /\ pointerInside
  /\ isHovered' = FALSE
  /\ isMouseInit' = FALSE
  /\ pointerInside' = FALSE
  /\ leftSinceRecord' = TRUE
  /\ UNCHANGED <<card, velocityFBO, densityFBO, content, uniforms, gl, densityInitialized,
                 mouse, lastMouse, hoverUpdates, shaderType, enablePainting,
                 imageTexture, patternAtlas, altPatternAtlas, time, passes>>
  /\ UNCHANGED <<config, resourceVars, fragmentVars, fieldVars, loaderVars>>

\* onMouseMove of Card3DAscii; the cached rect may be stale, hence the clamp
Card3DAscii_handleMouseMove ==
  /\ card = "Card3DAscii"
  /\ pointerInside
  /\ \E x \in RawCoords, y \in YCoords \cup {-1} :
       mouse' = <<Clamp01(x), Clamp01(y)>>
  /\ UNCHANGED <<card, velocityFBO, densityFBO, content, uniforms, gl, densityInitialized,
                 lastMouse, isMouseInit, isHovered, hoverUpdates, pointerInside, shaderType,
                 enablePainting, imageTexture, patternAtlas, altPatternAtlas, time, leftSinceRecord, passes>>
  /\ UNCHANGED <<config, resourceVars, fragmentVars, fieldVars, loaderVars>>

\* onMouseEnter of Card3DAscii: setIsHovered(true) is queued for the next render
Card3DAscii_handleMouseEnter ==
  /\ card = "Card3DAscii"
  /\ ~pointerInside
  /\ Len(hoverUpdates) < MaxPending
  /\ hoverUpdates' = Append(hoverUpdates, TRUE)
  /\ pointerInside' = TRUE
  /\ UNCHANGED <<card, velocityFBO, densityFBO, content, uniforms, gl, densityInitialized,
                 mouse, lastMouse, isMouseInit, isHovered, shaderType, enablePainting,
                 imageTexture, patternAtlas, altPatternAtlas, time, leftSinceRecord, passes>>
  /\ UNCHANGED <<config, resourceVars, fragmentVars, fieldVars, loaderVars>>

\* onMouseLeave of Card3DAscii: setIsHovered(false) is queued, mouseUV is set at once
Card3DAscii_handleMouseLeave ==
  /\ card = "Card3DAscii"
  /\ pointerInside
  /\ Len(hoverUpdates) < MaxPending
  /\ hoverUpdates' = Append(hoverUpdates, FALSE)
  /\ mouse' = InactivePosition
  /\ pointerInside' = FALSE
  /\ leftSinceRecord' = TRUE
  /\ UNCHANGED <<card, velocityFBO, densityFBO, content, uniforms, gl, densityInitialized,
                 lastMouse, isMouseInit, isHovered, shaderType, enablePainting,
                 imageTexture, patternAtlas, altPatternAtlas, time, passes>>
  /\ UNCHANGED <<config, resourceVars, fragmentVars, fieldVars, loaderVars>>

\* The hover-reset effect of Scene3DAscii, run when isCardHovered changed.
HoverResetEffect(isCardHovered, init) == IF ~isCardHovered THEN FALSE ELSE init

\* React renders the card with the queued isHovered updates applied in order;
\* Scene3DAscii re-renders and its effect runs only if the value changed.
Card3DAscii_render ==
  /\ card = "Card3DAscii"
  /\ hoverUpdates # <<>>
  /\ LET next == hoverUpdates[Len(hoverUpdates)] IN
       /\ isHovered' = next
       /\ isMouseInit' = IF next # isHovered
                           THEN HoverResetEffect(next, isMouseInit) ELSE isMouseInit
  /\ hoverUpdates' = <<>>
  /\ UNCHANGED <<card, velocityFBO, densityFBO, content, uniforms, gl, densityInitialized,
                 mouse, lastMouse, pointerInside, shaderType, enablePainting,
                 imageTexture, patternAtlas, altPatternAtlas, time, leftSinceRecord, passes>>
  /\ UNCHANGED <<config, resourceVars, fragmentVars, fieldVars, loaderVars>>

\* The parent re-renders the 3D card with another shaderType.
SetShaderType ==
  /\ card = "Card3DAscii"
  /\ \E t \in ShaderTypes \ {shaderType} : shaderType' = t
  /\ UNCHANGED <<card, velocityFBO, densityFBO, content, uniforms, gl, densityInitialized,
                 mouse, lastMouse, isMouseInit, isHovered, hoverUpdates, pointerInside,
                 enablePainting, imageTexture, patternAtlas, altPatternAtlas, time, leftSinceRecord, passes>>
  /\ UNCHANGED <<config, resourceVars, fragmentVars, fieldVars, loaderVars>>

\* The parent re-renders the card with enablePainting / enableInteractivity toggled.
SetEnablePainting ==
  /\ enablePainting' = ~enablePainting
  /\ UNCHANGED <<card, velocityFBO, densityFBO, content, uniforms, gl, densityInitialized,
                 mouse, lastMouse, isMouseInit, isHovered, hoverUpdates, pointerInside,
                 shaderType, imageTexture, patternAtlas, altPatternAtlas, time, leftSinceRecord, passes>>
  /\ UNCHANGED <<config, resourceVars, fragmentVars, fieldVars, loaderVars>>

\* TextureLoader callbacks: setImageTexture, setPatternAtlas, setAltPatternAtlas.
ImageLoaded ==
  /\ mounted
  /\ card = "CardAsciiPattern"
  /\ \E r \in pending :
       /\ r[1] = "imageTexture"
       /\ pending' = pending \ {r}
       /\ loaded' = [loaded EXCEPT !["imageTexture"] = r[2]]
  /\ imageTexture' = TRUE
  /\ UNCHANGED <<card, velocityFBO, densityFBO, content, uniforms, gl, densityInitialized,
                 mouse, lastMouse, isMouseInit, isHovered, hoverUpdates, pointerInside,
                 shaderType, enablePainting, patternAtlas, altPatternAtlas, time, leftSinceRecord, passes>>
  /\ UNCHANGED <<config, resourceVars, fragmentVars, fieldVars>>

PatternAtlasLoaded ==
  /\ mounted
  /\ \E r \in pending :
       /\ r[1] = "patternAtlas"
       /\ pending' = pending \ {r}
       /\ loaded' = [loaded EXCEPT !["patternAtlas"] = r[2]]
  /\ patternAtlas' = TRUE
  /\ UNCHANGED <<card, velocityFBO, densityFBO, content, uniforms, gl, densityInitialized,
                 mouse, lastMouse, isMouseInit, isHovered, hoverUpdates, pointerInside,
                 shaderType, enablePainting, imageTexture, altPatternAtlas, time, leftSinceRecord, passes>>
  /\ UNCHANGED <<config, resourceVars, fragmentVars, fieldVars>>

AltPatternAtlasLoaded ==
  /\ mounted
  /\ \E r \in pending :
       /\ r[1] = "altPatternAtlas"
       /\ pending' = pending \ {r}
       /\ loaded' = [loaded EXCEPT !["altPatternAtlas"] = r[2]]
  /\ altPatternAtlas' = TRUE
  /\ UNCHANGED <<card, velocityFBO, densityFBO, content, uniforms, gl, densityInitialized,
                 mouse, lastMouse, isMouseInit, isHovered, hoverUpdates, pointerInside,
                 shaderType, enablePainting, imageTexture, patternAtlas, time, leftSinceRecord, passes>>
  /\ UNCHANGED <<config, resourceVars, fragmentVars, fieldVars>>

Next ==
  \/ Frame
  \/ AsciiFluidScene_handleMouseMove
  \/ AsciiFluidScene_handleMouseLeave
  \/ Card3DAscii_handleMouseMove
  \/ Card3DAscii_handleMouseEnter
  \/ Card3DAscii_handleMouseLeave
  \/ Card3DAscii_render
  \/ SetShaderType
  \/ SetEnablePainting
  \/ ImageLoaded
  \/ PatternAtlasLoaded
  \/ AltPatternAtlasLoaded

Spec == Init /\ [][Next]_vars

TypeOK ==
  /\ velocityFBO.read \in VelocityBuffers
  /\ densityFBO.read \in DensityBuffers
  /\ time \in 0..MaxTime

\* ------------------------------------------------------- pattern shader
\* asciiFragmentShader, from the colour sampled at the tile centre onwards.
\* Colours, luminance, paint strength and blend factor are in thousandths.
Max(a, b) == IF a > b THEN a ELSE b
Min(a, b) == IF a < b THEN a ELSE b
Clamp(x, lo, hi) == Min(Max(x, lo), hi)

calculateLuminance(color) == (299 * color[1] + 587 * color[2] + 114 * color[3]) \div 1000

\* Mutant: no colour counts as background.
NearBlack_never(color) == FALSE

\* length(originalCol) < 0.04, the background test of the 3D card
NearBlack(color) ==
  color[1] * color[1] + color[2] * color[2] + color[3] * color[3]
    < BackgroundLength * BackgroundLength

\* Mutant: the wobbled luminance is not clamped.
WobbleLuminance_unclamped(lum, timeOffset) == lum + timeOffset

\* lum = clamp(lum + timeOffset, 0.0, 1.0)
WobbleLuminance(lum, timeOffset) == Clamp(lum + timeOffset, 0, 1000)

\* Mutant: the luminance is used as it is.
InvertLuminance_notInverted(lum) == lum

\* lum = 0.85 - lum
InvertLuminance(lum) == LuminanceOffset - lum

\* Mutant: the middle band scales by 2.0 instead of 0.8.
PatternIndex_doubleScale(scaledIntensity) ==
  Clamp(IF scaledIntensity < 500 THEN 0
        ELSE IF scaledIntensity < 3500 THEN ((scaledIntensity * 2) \div 1000) + 1
        ELSE IF scaledIntensity < 5000 THEN 4
        ELSE 5, 0, 5)

\* patternIndex from scaledIntensity = lum * 5.0
PatternIndex(scaledIntensity) ==
  Clamp(IF scaledIntensity < 500 THEN 0
        ELSE IF scaledIntensity < 3500 THEN ((scaledIntensity * 8) \div 10000) + 1
        ELSE IF scaledIntensity < 5000 THEN 4
        ELSE 5, 0, 5)

\* uPatternAtlasColumns as the card sets it.
PatternAtlasColumns(c, cfg) ==
  IF c = "CardAsciiPattern" THEN 4 ELSE IF cfg.useBlockyPattern THEN 6 ELSE 4

\* Mutant: the columns are counted back without the floor at 0.
RegularAtlasIndex_noFloor(patternIndex, columns) ==
  IF patternIndex = 0 THEN columns - 1
  ELSE IF patternIndex = 1 THEN columns - 2
  ELSE IF patternIndex = 2 THEN columns - 3
  ELSE IF patternIndex = 3 THEN columns - 4
  ELSE IF patternIndex = 4 THEN columns - 5
  ELSE 0

RegularAtlasIndex(patternIndex, columns) ==
  IF patternIndex = 0 THEN Max(0, columns - 1)
  ELSE IF patternIndex = 1 THEN Max(0, columns - 2)
  ELSE IF patternIndex = 2 THEN Max(0, columns - 3)
  ELSE IF patternIndex = 3 THEN Max(0, columns - 4)
  ELSE IF patternIndex = 4 THEN Max(0, columns - 5)
  ELSE 0

\* Mutant: the fallback looks one column past the end of the atlas.
FallbackAtlasIndex_pastEnd(patternIndex, columns) ==
  IF patternIndex <= 2 THEN columns ELSE columns - 1

\* Column of the fallback re-sample, taken when the regular colour is blank.
FallbackAtlasIndex(patternIndex, columns) ==
  IF patternIndex <= 2 THEN columns - 2 ELSE columns - 3

AltPatternIndex(lum) ==
  Clamp(IF lum < 100 THEN 0 ELSE IF lum < 300 THEN 1 ELSE IF lum < 500 THEN 2
        ELSE IF lum < 700 THEN 3 ELSE IF lum < 900 THEN 4 ELSE 5, 0, 5)

AltAtlasIndex(altPatternIndex, columns) == Min(altPatternIndex, columns - 1)

\* Mutant: the ramp is centred on the threshold.
FadeEdges_centred(threshold, width) == <<threshold - width, threshold + width>>

\* fadeStart and fadeEnd
FadeEdges(threshold, width) == <<threshold, threshold + width>>

\* What GLSL's smoothstep can return. With edge0 >= edge1 the result is
\* undefined: an implementation may return either end of the range.
smoothstep(edge0, edge1, x) ==
  IF edge0 < edge1
    THEN LET t == Clamp(((x - edge0) * 1000) \div (edge1 - edge0), 0, 1000)
         IN {(t * t * (3000 - 2 * t)) \div 1000000}
    ELSE {0, 1000}

\* Mutant: the alternate pattern is never blended in.
TransitionFactors_regularOnly(c, cfg, paintStrength) == {0}

\* transitionFactor; the 2D shader has no uEnableFadeTransition and always fades.
TransitionFactors(c, cfg, paintStrength) ==
  IF c = "CardAsciiPattern" \/ cfg.enableFadeTransition
    THEN LET edges == FadeEdges(cfg.fadeThreshold, cfg.fadeWidth)
         IN smoothstep(edges[1], edges[2], paintStrength)
    ELSE {IF paintStrength > cfg.fadeThreshold THEN 1000 ELSE 0}

\* paintStrength of a tile out of reach of every splat, read from a density
\* texture produced by the given chain of passes: a cleared target holds 0,
\* the fill shader writes uColor, advection of an even field multiplies it by
\* the dissipation, a distant splat adds exp(-d/radius) * color = 0.
RECURSIVE UnpaintedStrength(_, _)
UnpaintedStrength(chain, dissipation) ==
  IF chain = <<>> THEN 0
  ELSE LET before == UnpaintedStrength(SubSeq(chain, 1, Len(chain) - 1), dissipation)
           pass == chain[Len(chain)]
       IN IF pass = "fill" THEN FillValue
          ELSE IF pass = "advect" THEN (dissipation * before) \div 100
          ELSE before

\* main() of the fragment shader for one tile: the set of results it can give.
asciiFragmentShader_main(c, cfg, inBounds, color, timeOffset, paintStrength) ==
  LET sampled == [NoTile EXCEPT !.color = color, !.timeOffset = timeOffset,
                                !.paintStrength = paintStrength]
  IN IF ~inBounds THEN {[NoTile EXCEPT !.branch = "outOfBounds"]}
     ELSE IF c = "Card3DAscii" /\ NearBlack(color)
       THEN {[sampled EXCEPT !.branch = "background"]}
     ELSE
       LET lum == InvertLuminance(WobbleLuminance(calculateLuminance(color), timeOffset))
           patternIndex == PatternIndex(lum * 5)
           altPatternIndex == AltPatternIndex(lum)
           columns == PatternAtlasColumns(c, cfg)
           regularAtlasIndex == RegularAtlasIndex(patternIndex, columns)
           altAtlasIndex == AltAtlasIndex(altPatternIndex, AltPatternAtlasColumns)
       IN {[sampled EXCEPT
              !.branch = "pattern", !.lum = lum, !.patternIndex = patternIndex,
              !.regularAtlasIndex = regularAtlasIndex,
              !.altPatternIndex = altPatternIndex,
              !.altAtlasIndex = altAtlasIndex,
              !.columns = columns,
              !.samples = {<<"regular", regularAtlasIndex, columns>>,
                           <<"alt", altAtlasIndex, AltPatternAtlasColumns>>,
                           <<"fallback", FallbackAtlasIndex(patternIndex, columns), columns>>},
              !.transitionFactor = f]
            : f \in TransitionFactors(c, cfg, paintStrength)}

\* Inputs of the shader: adjusted colours, values of the temporal wobble
\* sin(...) * 0.1, and averages of the sampled density.
Colours ==
  {<<0, 0, 0>>, <<20, 20, 20>>, <<30, 30, 30>>, <<1000, 0, 0>>, <<1000, 600, 500>>,
   <<1000, 1000, 1000>>}
Wobbles == {-100, 0, 100}
PaintStrengths == {0, 100, 125, 150, 400, 500}
FadeSettings == {<<100, 50>>, <<100, 0>>, <<400, 100>>}

\* The props the caller can pass that reach the pattern shader.
Configs(c) ==
  IF c = "CardAsciiPattern" THEN {DefaultConfig(c)}
  ELSE {[DefaultConfig(c) EXCEPT !.useBlockyPattern = b] : b \in BOOLEAN}
       \cup {[DefaultConfig(c) EXCEPT !.enableFadeTransition = TRUE,
                                      !.fadeThreshold = tw[1], !.fadeWidth = tw[2]]
               : tw \in FadeSettings}
       \cup {[DefaultConfig(c) EXCEPT !.luminanceOffset = 500],
             [DefaultConfig(c) EXCEPT !.invertLuminance = FALSE]}

\* The pattern pass shades one more tile of the frame.
asciiFragmentShader ==
  /\ \/ tile' \in asciiFragmentShader_main(card, config, FALSE, <<0, 0, 0>>, 0, 0)
     \/ \E color \in Colours, timeOffset \in Wobbles, paintStrength \in PaintStrengths :
          tile' \in asciiFragmentShader_main(card, config, TRUE, color, timeOffset,
                                             paintStrength)
  /\ prevTile' = IF tile.branch = "pattern"
                   THEN [NoTile EXCEPT !.branch = "pattern", !.lum = tile.lum,
                                       !.patternIndex = tile.patternIndex]
                   ELSE prevTile
  /\ UNCHANGED <<card, velocityFBO, densityFBO, content, uniforms, gl, densityInitialized,
                 mouse, lastMouse, isMouseInit, isHovered, hoverUpdates, pointerInside,
                 shaderType, enablePainting, imageTexture, patternAtlas, altPatternAtlas,
                 time, leftSinceRecord, passes>>
  /\ UNCHANGED <<config, resourceVars, fieldVars, loaderVars>>

InitShader ==
  /\ card \in Cards
  /\ shaderType = "ascii"
  /\ enablePainting = FALSE
  /\ config \in Configs(card)
  /\ size = <<4, 3>>
  /\ pixelRatio = 4
  /\ InitScene
  /\ InitFragment
  /\ InitFields

NextShader == asciiFragmentShader

ShaderSpec == InitShader /\ [][NextShader]_vars

\* The column selection of the shader on its own, for any column count the
\* uniform uPatternAtlasColumns can be given and any pattern index.
selectAtlasColumn ==
  /\ \E columns \in 1..MaxColumns, patternIndex \in 0..5 :
       tile' = [NoTile EXCEPT !.branch = "column",
                              !.patternIndex = patternIndex,
                              !.columns = columns,
                              !.regularAtlasIndex = RegularAtlasIndex(patternIndex, columns)]
  /\ prevTile' = tile
  /\ UNCHANGED <<card, velocityFBO, densityFBO, content, uniforms, gl, densityInitialized,
                 mouse, lastMouse, isMouseInit, isHovered, hoverUpdates, pointerInside,
                 shaderType, enablePainting, imageTexture, patternAtlas, altPatternAtlas,
                 time, leftSinceRecord, passes>>
  /\ UNCHANGED <<config, resourceVars, fieldVars, loaderVars>>

NextAtlas == selectAtlasColumn

AtlasSpec == InitShader /\ [][NextAtlas]_vars

\* ----------------------------------------------------- advection shader
\* advectionShader on one row of texels. Field values are in thousandths; a
\* sample position is in thousandths of a texel of the sampled texture, texel
\* k having its centre at 1000 * k.
\* A value stored to a half-float target is rounded; GLSL ES leaves the mode
\* to the implementation.
RoundDiv(n, d, mode) ==
  LET a == Abs(n)
      q == IF mode = "nearest" THEN (2 * a + d) \div (2 * d) ELSE a \div d
  IN IF n < 0 THEN -q ELSE q

\* Textures of render targets clamp to the edge.
Texel(field, k) == field[Clamp(k, 1, Len(field))]

\* texture2D on the velocity texture (NearestFilter)
SampleNearest(field, pos) == Texel(field, (pos + 500) \div 1000)

\* Mutant: the two weights of the filter do not add up to one.
SampleLinear_unnormalised(field, pos) ==
  LET k == pos \div 1000
      w == pos - 1000 * k
  IN Texel(field, k) * 1000 + Texel(field, k + 1) * w

\* texture2D on the density texture (LinearFilter), times 1000
SampleLinear(field, pos) ==
  LET k == pos \div 1000
      w == pos - 1000 * k
  IN Texel(field, k) * (1000 - w) + Texel(field, k + 1) * w

\* dt * velocity * texelSize in thousandths of a texel of a texture that is
\* ratio times as wide as 1 / texelSize
Displacement(v, ratio) == RoundDiv(ratio * Dt * v, 1000, "nearest")

\* Texels of the density row per texel of the velocity row.
DyeRatio == DyeResolution \div SimResolution

\* The velocity pass: uVelocity and uSource are the velocity texture.
AdvectVelocity(velocity, dissipation, mode) ==
  [i \in 1..Len(velocity) |->
     RoundDiv(dissipation * SampleNearest(velocity, 1000 * i - Displacement(velocity[i], 1)),
              100, mode)]

\* The density pass: uSource is the density texture, uVelocity still the
\* velocity texture bound for the velocity pass, texelSize still 1/128.
AdvectDensity(density, velocity, dissipation, mode) ==
  [j \in 1..Len(density) |->
     LET v == Texel(velocity, ((j - 1) \div DyeRatio) + 1)
     IN RoundDiv(dissipation * SampleLinear(density, 1000 * j - Displacement(v, DyeRatio)),
                 100000, mode)]

\* Rows the fluid textures can hold when a run of frames without splat starts.
VelocityValues == {-60000, 0, 25000}
VelocityRows == [1..FieldCells -> VelocityValues]

DensityRows ==
  {[j \in 1..(FieldCells * DyeRatio) |-> IF j = at THEN peak ELSE base]
     : at \in 1..(FieldCells * DyeRatio), base \in {0, 500}, peak \in {200, 1500}}

RoundingModes == {"nearest", "towardZero"}

\* Dissipation the card passes to the shader, in hundredths.
Dissipations(c) ==
  IF c = "CardAsciiPattern" THEN {<<VelocityDissipation, DensityDissipation2D>>}
  ELSE {<<VelocityDissipation, DensityDissipation3D>>, <<50, 99>>}

\* The two advection passes of a frame in which no splat runs.
AdvectionPasses ==
  /\ time < MaxSteps
  /\ time' = time + 1
  /\ velocityField' = AdvectVelocity(velocityField, config.velocityDissipation, rounding)
  /\ densityField' = AdvectDensity(densityField, velocityField, config.densityDissipation,
                                   rounding)
  /\ UNCHANGED <<card, velocityFBO, densityFBO, content, uniforms, gl, densityInitialized,
                 mouse, lastMouse, isMouseInit, isHovered, hoverUpdates, pointerInside,
                 shaderType, enablePainting, imageTexture, patternAtlas, altPatternAtlas,
                 leftSinceRecord, passes, rounding>>
  /\ UNCHANGED <<config, resourceVars, fragmentVars, loaderVars>>

InitAdvection ==
  /\ card \in Cards
  /\ shaderType = "ascii"
  /\ enablePainting = TRUE
  /\ config \in {[DefaultConfig(card) EXCEPT !.velocityDissipation = d[1],
                                             !.densityDissipation = d[2]]
                   : d \in Dissipations(card)}
  /\ size = <<4, 3>>
  /\ pixelRatio = 4
  /\ InitScene
  /\ InitFragment
  /\ velocityField \in VelocityRows
  /\ densityField \in DensityRows
  /\ rounding \in RoundingModes

NextAdvection == AdvectionPasses

AdvectionSpec == InitAdvection /\ [][NextAdvection]_vars

\* ------------------------------------------------- lifetime of the targets
\* Viewports, pixel ratios (in quarters) and tileSize props the host page can
\* give a mounted card.
ViewportSizes == {<<4, 3>>, <<5, 3>>}
PixelRatios == {4, 5, 8}
TileSizes == {-1, 0, 6, 8}

\* Targets whose useMemo depends on [size.width, size.height].
SizedTargets(c) == TargetNames(c) \ FluidBuffers

\* The canvas changes size: the component re-renders and the memoised
\* patternFBO (and sceneFBO) are constructed anew. The replaced targets are
\* dropped without a call of dispose.
Resize ==
  /\ mounted
  /\ Cardinality(allocated) < Cardinality(TargetNames(card))
                                + MaxResizes * Cardinality(SizedTargets(card))
  /\ \E viewport \in ViewportSizes \ {size} :
       /\ size' = viewport
       /\ renderTargets' =
            [n \in TargetNames(card) |->
               IF n \in SizedTargets(card)
                 THEN NewTarget(n, renderTargets[n].generation + 1, viewport, pixelRatio)
                 ELSE renderTargets[n]]
  /\ allocated' = allocated \cup
       {<<n, renderTargets[n].generation + 1>> : n \in SizedTargets(card)}
  /\ UNCHANGED <<card, mouse, lastMouse, isMouseInit, isHovered, hoverUpdates, pointerInside,
                 velocityFBO, densityFBO, content, uniforms, gl, densityInitialized,
                 shaderType, enablePainting, imageTexture, patternAtlas, altPatternAtlas,
                 time, leftSinceRecord, passes>>
  /\ UNCHANGED <<config, pixelRatio, mounted, disposed, fragmentVars, fieldVars, loaderVars>>

\* window.devicePixelRatio changes (zoom, move to another screen); nothing
\* re-renders, the next frame reads the new value.
SetDevicePixelRatio ==
  /\ mounted
  /\ \E q \in PixelRatios \ {pixelRatio} : pixelRatio' = q
  /\ UNCHANGED <<card, mouse, lastMouse, isMouseInit, isHovered, hoverUpdates, pointerInside,
                 velocityFBO, densityFBO, content, uniforms, gl, densityInitialized,
                 shaderType, enablePainting, imageTexture, patternAtlas, altPatternAtlas,
                 time, leftSinceRecord, passes>>
  /\ UNCHANGED <<config, size, mounted, renderTargets, allocated, disposed,
                 fragmentVars, fieldVars, loaderVars>>

\* The parent re-renders the card with another tileSize prop: the pattern
\* material is rebuilt with uBaseTileSize: { value: tileSize }.
SetTileSize ==
  /\ mounted
  /\ \E t \in TileSizes \ {config.tileSize} :
       /\ config' = [config EXCEPT !.tileSize = t]
       /\ uniforms' = [uniforms EXCEPT !.uBaseTileSize = t]
  /\ UNCHANGED <<card, mouse, lastMouse, isMouseInit, isHovered, hoverUpdates, pointerInside,
                 velocityFBO, densityFBO, content, gl, densityInitialized,
                 shaderType, enablePainting, imageTexture, patternAtlas, altPatternAtlas,
                 time, leftSinceRecord, passes>>
  /\ UNCHANGED <<resourceVars, fragmentVars, fieldVars, loaderVars>>

\* The card is removed from the page. The cleanups of the effects remove the
\* meshes from their scenes and the event listeners; none disposes a target.
Unmount ==
  /\ mounted
  /\ mounted' = FALSE
  /\ UNCHANGED <<card, mouse, lastMouse, isMouseInit, isHovered, hoverUpdates, pointerInside,
                 velocityFBO, densityFBO, content, uniforms, gl, densityInitialized,
                 shaderType, enablePainting, imageTexture, patternAtlas, altPatternAtlas,
                 time, leftSinceRecord, passes>>
  /\ UNCHANGED <<config, size, pixelRatio, renderTargets, allocated, disposed,
                 fragmentVars, fieldVars, loaderVars>>

\* A freshly mounted card with its default props.
InitLifecycle ==
  /\ card \in Cards
  /\ shaderType \in (IF card = "Card3DAscii" THEN ShaderTypes ELSE {"ascii"})
  /\ enablePainting = TRUE
  /\ config = DefaultConfig(card)
  /\ size = <<4, 3>>
  /\ pixelRatio = 4
  /\ InitScene
  /\ InitFragment
  /\ InitFields

NextLifecycle ==
  \/ Frame
  \/ Resize
  \/ SetDevicePixelRatio
  \/ SetTileSize
  \/ Unmount
  \/ ImageLoaded
  \/ PatternAtlasLoaded
  \/ AltPatternAtlasLoaded

LifecycleSpec == InitLifecycle /\ [][NextLifecycle]_vars

\* ------------------------------------------------- a pointer on the surface
\* What the host can leave bound as the render target before a frame: the
\* canvas, or a target of its own.
RendererTargets == {"null", "hostTarget"}

\* The card with its textures loaded and the pointer resting on it, before its
\* next frame: hovered, no position consumed yet. The renderer is as the host
\* left it.
InitPointer ==
  /\ card \in Cards
  /\ shaderType = "ascii"
  /\ enablePainting = TRUE
  /\ config = DefaultConfig(card)
  /\ size = <<4, 3>>
  /\ pixelRatio = 4
  /\ velocityFBO = DoubleFBO("v0", "v1")
  /\ densityFBO = DoubleFBO("d0", "d1")
  /\ content = [b \in FluidBuffers |-> <<>>]
  /\ uniforms = [uTarget |-> "none", uVelocity |-> "none", uSource |-> "none",
                 dissipation |-> 100, uImage |-> "none", uDeformTexture |-> "none",
                 customImage |-> "none", uMap |-> "none", fluidMeshMaterial |-> "splat",
                 uBaseTileSize |-> config.tileSize]
  /\ gl \in [target : RendererTargets, autoClear : BOOLEAN]
  /\ densityInitialized = FALSE
  /\ mouse = <<0, 0>>
  /\ lastMouse = InactivePosition
  /\ isMouseInit = FALSE
  /\ isHovered = TRUE
  /\ hoverUpdates = <<>>
  /\ pointerInside = TRUE
  /\ imageTexture = (card = "CardAsciiPattern")
  /\ patternAtlas = TRUE
  /\ altPatternAtlas = TRUE
  /\ time = 0
  /\ leftSinceRecord = FALSE
  /\ passes = <<>>
  /\ mounted = TRUE
  /\ renderTargets = [n \in TargetNames(card) |-> NewTarget(n, 0, size, pixelRatio)]
  /\ allocated = {<<n, 0>> : n \in TargetNames(card)}
  /\ disposed = {}
  /\ pending = {}
  /\ loaded = [slot \in TextureSlots |->
                 IF \E r \in Requests(card, config) : r[1] = slot
                   THEN (CHOOSE r \in Requests(card, config) : r[1] = slot)[2]
                   ELSE "none"]
  /\ InitFragment
  /\ InitFields

\* The frame callback, for a run of MaxFrames frames.
SimulationFrame ==
  /\ mounted
  /\ time < MaxFrames
  /\ RunFrame

NextPointer ==
  \/ SimulationFrame
  \/ AsciiFluidScene_handleMouseMove
  \/ Card3DAscii_handleMouseMove
  \/ SetEnablePainting
  \/ SetShaderType

PointerSpec == InitPointer /\ [][NextPointer]_vars

\* ------------------------------------------------------- texture loading
ImageUrls == {"image-a", "image-b"}

\* The parent re-renders the 3D card with useBlockyPattern toggled: the atlas
\* effect runs again and issues two more loads. Nothing cancels the loads
\* already under way, and the atlases in state stay until a callback runs.
SetUseBlockyPattern ==
  /\ mounted
  /\ card = "Card3DAscii"
  /\ config' = [config EXCEPT !.useBlockyPattern = ~@]
  /\ pending' = pending \cup Requests(card, config')
  /\ UNCHANGED <<card, velocityFBO, densityFBO, content, uniforms, gl, densityInitialized,
                 mouse, lastMouse, isMouseInit, isHovered, hoverUpdates, pointerInside,
                 shaderType, enablePainting, imageTexture, patternAtlas, altPatternAtlas,
                 time, leftSinceRecord, passes>>
  /\ UNCHANGED <<resourceVars, fragmentVars, fieldVars, loaded>>

\* The parent re-renders the 2D card with another imageUrl: the texture effect
\* runs again and loads the image and both atlases.
SetImageUrl ==
  /\ mounted
  /\ card = "CardAsciiPattern"
  /\ \E url \in ImageUrls \ {config.imageUrl} : config' = [config EXCEPT !.imageUrl = url]
  /\ pending' = pending \cup Requests(card, config')
  /\ UNCHANGED <<card, velocityFBO, densityFBO, content, uniforms, gl, densityInitialized,
                 mouse, lastMouse, isMouseInit, isHovered, hoverUpdates, pointerInside,
                 shaderType, enablePainting, imageTexture, patternAtlas, altPatternAtlas,
                 time, leftSinceRecord, passes>>
  /\ UNCHANGED <<resourceVars, fragmentVars, fieldVars, loaded>>

NextLoad ==
  \/ SetUseBlockyPattern
  \/ SetImageUrl
  \/ ImageLoaded
  \/ PatternAtlasLoaded
  \/ AltPatternAtlasLoaded

LoadSpec == Init /\ [][NextLoad]_vars

\* ------------------------------------------------------- reading the log
IsRender(e) == e.ev = "render"
IsSwap(e) == e.ev = "swap"
IsFluidPass(e) == e.ev = "render" /\ e.what \in {"splat", "advection"}

PairOf(b) ==
  IF b \in VelocityBuffers THEN "velocityFBO"
  ELSE IF b \in DensityBuffers THEN "densityFBO" ELSE "other"

PassKind(e) == <<e.what, PairOf(e.target)>>

PassKinds(log) ==
  LET f == SelectSeq(log, IsFluidPass) IN [i \in 1..Len(f) |-> PassKind(f[i])]

HasPass(log, what) == \E i \in DOMAIN log : IsRender(log[i]) /\ log[i].what = what

HasSplat(log) == HasPass(log, "splat")

AdvectionOnly == << <<"advection", "velocityFBO">>, <<"advection", "densityFBO">> >>

SplatThenAdvection ==
  << <<"splat", "velocityFBO">>, <<"splat", "densityFBO">> >> \o AdvectionOnly

\* The roles of the pairs right after event i of the most recent frame.
VelocityAfter(i) == IF i < Len(passes) THEN passes[i + 1].velocityFBO ELSE velocityFBO
DensityAfter(i) == IF i < Len(passes) THEN passes[i + 1].densityFBO ELSE densityFBO

PairOK(fbo, buffers) == fbo.read # fbo.write /\ {fbo.read, fbo.write} = buffers

\* ---------------------------------------------------------------- claims

\* C1: in every state, and between any two operations of a frame, each
\* ping-pong pair holds the two buffers allocated at construction, one as read
\* and the other as write; a swap exchanges the two roles and nothing else
\* changes them.
C1_PingPongPairs ==
  /\ PairOK(velocityFBO, VelocityBuffers)
  /\ PairOK(densityFBO, DensityBuffers)
  /\ \A i \in DOMAIN passes :
       LET e == passes[i] IN
         /\ PairOK(e.velocityFBO, VelocityBuffers)
         /\ PairOK(e.densityFBO, DensityBuffers)
         /\ VelocityAfter(i) =
              IF IsSwap(e) /\ e.what = "velocityFBO"
                THEN [read |-> e.velocityFBO.write, write |-> e.velocityFBO.read]
                ELSE e.velocityFBO
         /\ DensityAfter(i) =
              IF IsSwap(e) /\ e.what = "densityFBO"
                THEN [read |-> e.densityFBO.write, write |-> e.densityFBO.read]
                ELSE e.densityFBO

C1_Witness ==
  /\ \E i \in DOMAIN passes : IsSwap(passes[i]) /\ passes[i].what = "velocityFBO"
  /\ \E i \in DOMAIN passes : IsSwap(passes[i]) /\ passes[i].what = "densityFBO"
  /\ velocityFBO.read = "v1"
  /\ densityFBO.read = "d1"

\* C2: no pass of a frame renders into a buffer whose texture one of the
\* uniforms of the material of that pass is bound to.
C2_NoReadWriteHazard ==
  \A i \in DOMAIN passes :
    IsRender(passes[i]) => passes[i].target \notin passes[i].inputs

C2_Witness ==
  /\ HasPass(passes, "splat")
  /\ HasPass(passes, "advection")
  /\ HasPass(passes, "ascii")
  /\ HasPass(passes, "display")

\* C3 (as stated): in a rendered frame of the 3D card the passes come in the
\* order capture, simulate, composite, present, and capture, composite and
\* present are always there.
StageRank(e) ==
  IF ~IsRender(e) THEN 0
  ELSE IF e.target = "sceneFBO" THEN 1
  ELSE IF e.what \in {"splat", "advection"} THEN 2
  ELSE IF e.target = "patternFBO" THEN 3
  ELSE IF e.what = "display" THEN 4
  ELSE 0

C3_StageOrder ==
  (card = "Card3DAscii" /\ passes # <<>>) =>
    /\ \A i, j \in DOMAIN passes :
         (i < j /\ StageRank(passes[i]) > 0 /\ StageRank(passes[j]) > 0)
           => StageRank(passes[i]) <= StageRank(passes[j])
    /\ \A r \in {1, 3, 4} : \E i \in DOMAIN passes : StageRank(passes[i]) = r

\* C4: the fluid passes of a frame are, in order, velocity splat and density
\* splat (only together), velocity advection, density advection; every pass on
\* a fluid buffer renders into the write buffer of its pair and is followed by
\* exactly one swap of that pair; the composite pass samples the buffer the
\* last density pass of the frame wrote.
WritesThenSwaps(i) ==
  LET e == passes[i]
      pair == PairOf(e.target)
  IN pair # "other" =>
       /\ e.target = (IF pair = "velocityFBO" THEN e.velocityFBO.write ELSE e.densityFBO.write)
       /\ i + 1 <= Len(passes)
       /\ IsSwap(passes[i + 1])
       /\ passes[i + 1].what = pair
       /\ i + 2 <= Len(passes) => ~IsSwap(passes[i + 2])

CompositeReadsLastDensityPass(k) ==
  LET before == {j \in 1..(k - 1) : IsRender(passes[j]) /\ passes[j].target \in DensityBuffers}
  IN before # {} =>
       LET j == CHOOSE x \in before : \A y \in before : y <= x
       IN /\ passes[j].target \in passes[k].inputs
          /\ passes[j].target = passes[k].densityFBO.read

C4_StepOrder ==
  /\ PassKinds(passes) \in {<<>>, AdvectionOnly, SplatThenAdvection}
  /\ \A i \in DOMAIN passes : IsRender(passes[i]) => WritesThenSwaps(i)
  /\ \A k \in DOMAIN passes :
       (IsRender(passes[k]) /\ passes[k].what = "ascii") => CompositeReadsLastDensityPass(k)

C4_Witness ==
  /\ PassKinds(passes) = SplatThenAdvection
  /\ HasPass(passes, "ascii")

\* What the next frame would do, and whether it is a rendered one.
NextLog == useFrame.passes

RequiredTexturesLoaded ==
  IF card = "CardAsciiPattern"
    THEN imageTexture /\ patternAtlas /\ altPatternAtlas
    ELSE shaderType = "ascii" => (patternAtlas /\ altPatternAtlas)

PatternEffect == card = "CardAsciiPattern" \/ shaderType = "ascii"

HasAdvections(log) ==
  \E i, j \in DOMAIN log :
    /\ i < j
    /\ IsRender(log[i]) /\ PassKind(log[i]) = <<"advection", "velocityFBO">>
    /\ IsRender(log[j]) /\ PassKind(log[j]) = <<"advection", "densityFBO">>

PointerOnCard == isHovered /\ mouse[1] >= 0 /\ mouse[2] >= 0

\* C5 (as stated): while painting is enabled, every rendered frame of the
\* pattern effect runs the velocity and the density advection, whether the
\* pointer hovers or not.
C5_AdvectionEveryFrame ==
  (RequiredTexturesLoaded /\ PatternEffect /\ enablePainting) => HasAdvections(NextLog)

\* C5 (amended): the 2D card advects in every rendered frame; the 3D card
\* advects exactly in the rendered frames of the pattern effect in which
\* painting is enabled and the pointer is on the card, whether it moved or not;
\* a splat never runs without the two advections after it.
C5_AdvectionWhenSimulating ==
  RequiredTexturesLoaded =>
    /\ card = "CardAsciiPattern" => HasAdvections(NextLog)
    /\ card = "Card3DAscii" =>
         (HasAdvections(NextLog) <=> (shaderType = "ascii" /\ enablePainting /\ PointerOnCard))
    /\ HasSplat(NextLog) => PassKinds(NextLog) = SplatThenAdvection

C5_Witness ==
  /\ card = "Card3DAscii"
  /\ \E i \in DOMAIN passes :
       passes[i].ev = "pointer" /\ passes[i].what = "delta" /\ passes[i].move = "zero"
  /\ HasAdvections(passes)
  /\ ~HasSplat(passes)

\* C6 (as stated): with the pointer off the surface no frame splats, and the
\* first simulation step after a re-entry only records the position: no step
\* computes a displacement from a position recorded before the leave.
C6_NoSplatFromStalePosition ==
  /\ ~pointerInside => ~HasSplat(NextLog)
  /\ \A i \in DOMAIN passes :
       (passes[i].ev = "pointer" /\ passes[i].stale) => passes[i].what = "record"

\* C7: a step whose pointer position equals the previous position runs no
\* splat pass; if the simulation runs in it, its passes on the fluid buffers
\* are the velocity and the density advection and each field read afterwards
\* is the field read before with one advection applied.
C7_ZeroDisplacementNoSplat ==
  mouse = lastMouse =>
    LET m == useFrame IN
      /\ ~HasSplat(m.passes)
      /\ HasPass(m.passes, "advection") =>
           /\ PassKinds(m.passes) = AdvectionOnly
           /\ ~HasPass(m.passes, "fill")
           /\ m.content[m.velocityFBO.read] = Append(content[velocityFBO.read], "advect")
           /\ m.content[m.densityFBO.read] = Append(content[densityFBO.read], "advect")

C7_Witness ==
  /\ \E i \in DOMAIN passes :
       passes[i].ev = "pointer" /\ passes[i].what = "delta" /\ passes[i].move = "zero"
  /\ PassKinds(passes) = AdvectionOnly
  /\ mouse = lastMouse

\* C8: while a texture the selected effect needs is missing, a frame returns
\* with nothing changed and no pass run; once they are all there, every frame
\* advances the time and runs a composite pass and the present pass.
C8_SkipUntilTexturesLoaded ==
  LET m == useFrame IN
    /\ ~RequiredTexturesLoaded => m = Machine
    /\ RequiredTexturesLoaded =>
         /\ m.time = time + 1
         /\ \E i \in DOMAIN m.passes :
              IsRender(m.passes[i]) /\ m.passes[i].target = "patternFBO"
         /\ HasPass(m.passes, "display")
         /\ m.gl = gl

C8_Witness ==
  /\ card = "Card3DAscii"
  /\ shaderType = "ascii"
  /\ patternAtlas /\ ~altPatternAtlas
  /\ enablePainting /\ PointerOnCard
  /\ time > 0

\* C9: with one of the alternate filters selected, a frame of the 3D card
\* leaves the fluid buffers, their roles, the density-initialised flag and the
\* pointer bookkeeping as they were, runs no pass on a fluid buffer and no swap,
\* and runs exactly one pass into the composite buffer, with the filter material.
C9_AlternateFilterSkipsFluid ==
  (card = "Card3DAscii" /\ shaderType # "ascii") =>
    LET m == useFrame IN
      /\ m.velocityFBO = velocityFBO
      /\ m.densityFBO = densityFBO
      /\ m.content = content
      /\ m.densityInitialized = densityInitialized
      /\ m.lastMouse = lastMouse
      /\ m.isMouseInit = isMouseInit
      /\ \A i \in DOMAIN m.passes :
           /\ ~IsSwap(m.passes[i])
           /\ m.passes[i].ev # "pointer"
           /\ IsRender(m.passes[i]) => m.passes[i].target \notin FluidBuffers
      /\ Cardinality({i \in DOMAIN m.passes :
                        IsRender(m.passes[i]) /\ m.passes[i].target = "patternFBO"}) = 1
      /\ HasPass(m.passes, "custom")
      /\ ~HasPass(m.passes, "ascii")

C9_Witness ==
  /\ card = "Card3DAscii"
  /\ shaderType # "ascii"
  /\ HasPass(passes, "custom")
  /\ densityInitialized
  /\ isMouseInit
  /\ enablePainting /\ PointerOnCard

\* C10 (as stated): on either card, every density field a pass samples was
\* filled with the baseline first, both slots of the pair.
ReadsFilledDensity(log) ==
  \A i \in DOMAIN log :
    \A r \in log[i].read :
      r[1] \in DensityBuffers => (r[2] # <<>> /\ r[2][1] = "fill")

C10_DensityFilledBeforeUse == ReadsFilledDensity(passes)

\* C10 (amended): on the 3D card, every density field a pass samples starts
\* from the fill; the fill is two fill passes, one into each slot, at the very
\* start of the first rendered frame of the pattern effect, after which the
\* roles of the pair are what they were; an initialised instance never fills
\* again. (The 2D card has no fill pass.)
FillPasses(log) == {i \in DOMAIN log : IsRender(log[i]) /\ log[i].what = "fill"}

C10_DensityFilledOnce3D ==
  card = "Card3DAscii" =>
    /\ ReadsFilledDensity(passes)
    /\ densityInitialized <=>
         \A b \in DensityBuffers : content[b] # <<>> /\ content[b][1] = "fill"
    /\ FillPasses(passes) # {} =>
         /\ FillPasses(passes) = {1, 3}
         /\ {passes[1].target, passes[3].target} = DensityBuffers
         /\ DensityAfter(4) = passes[1].densityFBO
    /\ densityInitialized => FillPasses(NextLog) = {}
    /\ (~densityInitialized /\ RequiredTexturesLoaded /\ shaderType = "ascii")
         => FillPasses(NextLog) = {1, 3}

C10_Witness ==
  /\ card = "Card3DAscii"
  /\ FillPasses(passes) = {1, 3}
  /\ HasAdvections(passes)
  /\ HasPass(passes, "ascii")

\* C12: swapping a pair twice in a row gives back the pair: same read buffer,
\* same write buffer. In a frame, the second of two successive swaps of a pair
\* restores the roles the pair had before the first, and a swap of one pair
\* leaves the other pair and the contents of all four buffers as they were.
PairBefore(e, which) == IF which = "velocityFBO" THEN e.velocityFBO ELSE e.densityFBO

PairAfter(i, which) == IF which = "velocityFBO" THEN VelocityAfter(i) ELSE DensityAfter(i)

OtherPair(which) == IF which = "velocityFBO" THEN "densityFBO" ELSE "velocityFBO"

NextSwapOf(i, which) ==
  {j \in DOMAIN passes :
     /\ j > i /\ IsSwap(passes[j]) /\ passes[j].what = which
     /\ \A k \in (i + 1)..(j - 1) : ~(IsSwap(passes[k]) /\ passes[k].what = which)}

C12_SwapTwiceRestores ==
  /\ swap(swap(velocityFBO)) = velocityFBO
  /\ swap(swap(densityFBO)) = densityFBO
  /\ DOMAIN swap(velocityFBO) = {"read", "write"}
  /\ LET m == swapDensity(swapVelocity(Machine)) IN
       /\ m.content = content
       /\ swapDensity(swapVelocity(m)).velocityFBO = velocityFBO
       /\ swapDensity(swapVelocity(m)).densityFBO = densityFBO
  /\ \A i \in DOMAIN passes :
       IsSwap(passes[i]) =>
         /\ PairAfter(i, OtherPair(passes[i].what)) = PairBefore(passes[i], OtherPair(passes[i].what))
         /\ \A j \in NextSwapOf(i, passes[i].what) :
              PairAfter(j, passes[i].what) = PairBefore(passes[i], passes[i].what)

C12_Witness ==
  /\ Cardinality({i \in DOMAIN passes : IsSwap(passes[i]) /\ passes[i].what = "velocityFBO"}) = 2
  /\ Cardinality({i \in DOMAIN passes : IsSwap(passes[i]) /\ passes[i].what = "densityFBO"}) = 2
  /\ velocityFBO = passes[1].velocityFBO
  /\ densityFBO = passes[1].densityFBO

\* C20: the pointer position is inside the unit square or is the inactive
\* sentinel; a frame that computes a displacement does so from a current and a
\* previous position that are both inside the unit square, and every position
\* a frame records or leaves in lastMouse is inside it too.
InUnitSquare(p) == p[1] \in 0..1000 /\ p[2] \in 0..1000

ComputesDisplacement(log) ==
  \E i \in DOMAIN log : log[i].ev = "pointer" /\ log[i].what = "delta"

C20_PointerPositionDomain ==
  /\ mouse = InactivePosition \/ InUnitSquare(mouse)
  /\ lastMouse = InactivePosition \/ InUnitSquare(lastMouse)
  /\ isMouseInit => InUnitSquare(lastMouse)
  /\ ComputesDisplacement(NextLog) => (InUnitSquare(mouse) /\ InUnitSquare(lastMouse))
  /\ \A i \in DOMAIN NextLog : NextLog[i].ev = "pointer" => InUnitSquare(mouse)

C20_Witness ==
  /\ card = "Card3DAscii"
  /\ ComputesDisplacement(passes)
  /\ HasSplat(passes)
  /\ mouse = InactivePosition
  /\ lastMouse[1] = 1000
  /\ leftSinceRecord

\* C13: the pattern index of a shaded tile is an integer from 0 to 5, and of
\* two tiles the one with the larger inverted luminance never has the smaller
\* index; the same holds of the index function over the inverted luminances
\* o - l of every offset o and luminance l, beyond the one offset the shader has.
InvertedLuminances == {k * 125 : k \in -8..16}

IndexMonotoneOverSweep ==
  \A a, b \in InvertedLuminances :
    /\ PatternIndex(a * 5) \in 0..5
    /\ a <= b => PatternIndex(a * 5) <= PatternIndex(b * 5)

C13_PatternIndexMonotone ==
  /\ tile.branch = "pattern" =>
       tile.patternIndex \in 0..5
  /\ (tile.branch = "pattern" /\ prevTile.branch = "pattern") =>
       /\ prevTile.lum <= tile.lum => prevTile.patternIndex <= tile.patternIndex
       /\ tile.lum <= prevTile.lum => tile.patternIndex <= prevTile.patternIndex
  /\ IndexMonotoneOverSweep

C13_Witness ==
  /\ tile.branch = "pattern" /\ prevTile.branch = "pattern"
  /\ prevTile.lum < tile.lum
  /\ prevTile.patternIndex = 2
  /\ tile.patternIndex = 3

\* A tile whose colour was sampled: its centre is inside the source.
Sampled(t) == t.branch \in {"background", "pattern"}

Black == <<0, 0, 0>>
White == <<1000, 1000, 1000>>

\* C14 (as stated): on either card a tile whose adjusted colour is pure black
\* resolves pattern index 4 and the regular column that belongs to it.
C14_BlackResolvesIndex4 ==
  (Sampled(tile) /\ tile.color = Black) =>
    /\ tile.branch = "pattern"
    /\ tile.patternIndex = 4
    /\ tile.regularAtlasIndex = Max(0, PatternAtlasColumns(card, config) - 5)

\* C14 (amended): on the 2D card a pure black tile resolves pattern index 4
\* for every value of the wobble (inverted luminance 0.75 to 0.85) and regular
\* column max(0, columns - 5), which is column 0 of its four; on the 3D card
\* a pure black tile is background and resolves no index, and the darkest
\* colours that are not background resolve index 4 and column max(0, columns - 5).
C14_BlackTile ==
  /\ (card = "CardAsciiPattern" /\ Sampled(tile) /\ tile.color = Black) =>
       /\ tile.branch = "pattern"
       /\ tile.lum \in 750..850
       /\ tile.patternIndex = 4
       /\ tile.regularAtlasIndex = 0
  /\ (card = "Card3DAscii" /\ Sampled(tile) /\ tile.color = Black) =>
       /\ tile.branch = "background"
       /\ tile.patternIndex = -1
       /\ tile.regularAtlasIndex = -1
  /\ (tile.branch = "pattern" /\ calculateLuminance(tile.color) <= 30) =>
       /\ tile.patternIndex = 4
       /\ tile.regularAtlasIndex = Max(0, PatternAtlasColumns(card, config) - 5)

C14_Witness ==
  /\ card = "CardAsciiPattern"
  /\ tile.branch = "pattern"
  /\ tile.color = Black
  /\ tile.timeOffset = 100
  /\ tile.patternIndex = 4
  /\ prevTile.branch = "pattern"

\* C15: a tile whose adjusted colour is pure white resolves pattern index 0
\* and the last column of the regular atlas, whatever the wobble, on both cards.
C15_WhiteResolvesIndex0 ==
  (Sampled(tile) /\ tile.color = White) =>
    /\ tile.branch = "pattern"
    /\ tile.lum \in -150..-50
    /\ tile.patternIndex = 0
    /\ tile.regularAtlasIndex = PatternAtlasColumns(card, config) - 1

C15_Witness ==
  /\ card = "Card3DAscii"
  /\ tile.color = White
  /\ tile.timeOffset = -100
  /\ tile.branch = "pattern"
  /\ tile.regularAtlasIndex = 5

\* The shader blends with smoothstep: always on the 2D card, on the 3D card
\* when enableFadeTransition is set.
FadeEnabled == card = "CardAsciiPattern" \/ config.enableFadeTransition

\* C16 (as stated): with the fade enabled the blend factor is 0 at paint
\* strength fadeThreshold and 1 at fadeThreshold + fadeWidth, for every
\* threshold and width.
C16_FadeEdgeValues ==
  (FadeEnabled /\ tile.branch = "pattern") =>
    /\ tile.paintStrength = config.fadeThreshold => tile.transitionFactor = 0
    /\ tile.paintStrength = config.fadeThreshold + config.fadeWidth
         => tile.transitionFactor = 1000

\* C16 (amended): with the fade enabled and fadeWidth > 0, the blend factor
\* is 0 at and below fadeThreshold, 1 at and above fadeThreshold + fadeWidth,
\* and strictly between 0 and 1 in between.
C16_FadeEdgeValuesPositiveWidth ==
  (FadeEnabled /\ tile.branch = "pattern" /\ config.fadeWidth > 0) =>
    /\ tile.paintStrength <= config.fadeThreshold => tile.transitionFactor = 0
    /\ tile.paintStrength >= config.fadeThreshold + config.fadeWidth
         => tile.transitionFactor = 1000
    /\ (tile.paintStrength > config.fadeThreshold
        /\ tile.paintStrength < config.fadeThreshold + config.fadeWidth)
         => (tile.transitionFactor > 0 /\ tile.transitionFactor < 1000)

C16_Witness ==
  /\ card = "Card3DAscii"
  /\ config.enableFadeTransition
  /\ config.fadeWidth > 0
  /\ tile.branch = "pattern"
  /\ tile.paintStrength = config.fadeThreshold + config.fadeWidth
  /\ tile.transitionFactor = 1000
  /\ prevTile.branch = "pattern"

\* C11: in a run of simulation steps without splat, with the dissipation
\* constants between 0 and 1, the largest magnitude of the velocity field and
\* of the density field never grows from a step to the next: the step bounds it
\* by the dissipation constant times the previous maximum (rounded up to the
\* next representable value), which is strictly less once the maximum is not
\* within rounding of zero.
MaxMagnitude(field) ==
  IF Len(field) = 0 THEN 0
  ELSE CHOOSE x \in {Abs(field[i]) : i \in DOMAIN field} :
         \A i \in DOMAIN field : Abs(field[i]) <= x

CeilDiv(n, d) == (n + d - 1) \div d

Decayed(after, before, dissipation) ==
  /\ MaxMagnitude(after) <= MaxMagnitude(before)
  /\ MaxMagnitude(after) <= CeilDiv(dissipation * MaxMagnitude(before), 100)
  /\ MaxMagnitude(before) >= 100 => MaxMagnitude(after) < MaxMagnitude(before)

C11_AdvectionNeverGrows ==
  (config.velocityDissipation \in 1..99 /\ config.densityDissipation \in 1..99) =>
    /\ Decayed(AdvectVelocity(velocityField, config.velocityDissipation, rounding),
               velocityField, config.velocityDissipation)
    /\ Decayed(AdvectDensity(densityField, velocityField, config.densityDissipation,
                             rounding),
               densityField, config.densityDissipation)

C11_Witness ==
  /\ time = 2
  /\ rounding = "towardZero"
  /\ MaxMagnitude(velocityField) \in 1..59999
  /\ MaxMagnitude(densityField) \in 1..1499
  /\ \E j \in DOMAIN densityField : densityField[j] # densityField[1]

\* The composite passes of the last frame: the pattern pass, or the pass of an
\* alternate filter, into patternFBO.
CompositePasses(log) ==
  {i \in DOMAIN log : log[i].ev = "render" /\ log[i].target = "patternFBO"}

\* C17: the tile size the pattern shader divides by is at least 1 at every
\* composite pass, whatever tileSize the card was given (a zero or negative
\* value being rejected or clamped before use).
C17_TileSizeAtLeastOne ==
  \A i \in CompositePasses(passes) : passes[i].uBaseTileSize >= 1

\* C18: once the card is unmounted every render target it constructed,
\* the ones replaced after a resize included, has been disposed.
C18_AllReleasedAfterTeardown == ~mounted => allocated \subseteq disposed

\* C19: in every frame, at the composite pass patternFBO measures
\* round(2 * width * devicePixelRatio) by round(2 * height * devicePixelRatio)
\* for the viewport and pixel ratio of that frame, sceneFBO twice the logical
\* size, and the fluid targets 128 x 128 and 512 x 512.
SizesAtComposite(targets, viewport, q) ==
  /\ targets["patternFBO"].width = RenderSize(viewport[1], q)
  /\ targets["patternFBO"].height = RenderSize(viewport[2], q)
  /\ "sceneFBO" \in DOMAIN targets =>
       /\ targets["sceneFBO"].width = 2 * viewport[1]
       /\ targets["sceneFBO"].height = 2 * viewport[2]
  /\ \A b \in VelocityBuffers :
       targets[b].width = SimResolution /\ targets[b].height = SimResolution
  /\ \A b \in DensityBuffers :
       targets[b].width = DyeResolution /\ targets[b].height = DyeResolution

C19_TargetSizesFollowViewport ==
  [][time' = time + 1 =>
       \A i \in CompositePasses(passes') :
         SizesAtComposite(passes'[i].renderTargets, size, pixelRatio)]_vars

C19_Witness ==
  /\ card = "Card3DAscii"
  /\ size = <<4, 3>>
  /\ pixelRatio = 5
  /\ renderTargets["patternFBO"].generation = 2
  /\ CompositePasses(passes) # {}
  /\ \A i \in CompositePasses(passes) :
       /\ passes[i].renderTargets["patternFBO"].generation = 2
       /\ passes[i].renderTargets["patternFBO"].width = 10
       /\ passes[i].renderTargets["patternFBO"].height = 8
       /\ passes[i].renderTargets["sceneFBO"].width = 8

\* C21: the luminanceOffset and invertLuminance props of the 3D card reach the
\* pattern-index computation: the luminance a pattern tile is indexed by is
\* luminanceOffset minus the wobbled source luminance when invertLuminance is
\* set, and the wobbled source luminance itself when it is not.
WobbledLuminance(t) == WobbleLuminance(calculateLuminance(t.color), t.timeOffset)

C21_ConfiguredInversionUsed ==
  (card = "Card3DAscii" /\ tile.branch = "pattern") =>
    tile.lum = IF config.invertLuminance
                 THEN config.luminanceOffset - WobbledLuminance(tile)
                 ELSE WobbledLuminance(tile)

\* C22: in every simulation step the density advection pass samples, as its
\* velocity, the read buffer of the velocity pair, which holds the field the
\* velocity advection of the same step has just written.
DensityAdvections(log) ==
  {i \in DOMAIN log : /\ IsRender(log[i])
                      /\ log[i].what = "advection"
                      /\ log[i].target \in DensityBuffers}

C22_DensityAdvectedByCurrentVelocity ==
  \A i \in DensityAdvections(passes) :
    passes[i].inputs \cap VelocityBuffers = {passes[i].velocityFBO.read}

\* C23: while no splat has run on the card, the pattern pass blends with
\* factor 0 in every tile under the default fade threshold.
PatternPasses(log) ==
  {i \in DOMAIN log : IsRender(log[i]) /\ log[i].what = "ascii"}

Unpainted(chain) == \A k \in DOMAIN chain : chain[k] # "splat"

\* The factors the shader can give a tile that reads the density field.
FactorsOf(field) ==
  TransitionFactors(card, config, UnpaintedStrength(field, config.densityDissipation))

PointerEvents(log, which) ==
  {i \in DOMAIN log : log[i].ev = "pointer" /\ log[i].what = which}

C24_PreviousPositionAlwaysAdvances ==
  [][(time' = time + 1 /\ PointerEvents(passes', "delta") # {}) =>
       /\ lastMouse' = mouse
       /\ \A i \in PointerEvents(passes', "delta") :
            passes'[i].move \in {"zero", "small"} => ~HasSplat(passes')]_vars

C24_Witness ==
  /\ time = MaxFrames
  /\ lastMouse = <<2, 0>>
  /\ mouse = lastMouse
  /\ \E i \in PointerEvents(passes, "delta") : passes[i].move = "small"
  /\ ~HasSplat(passes)
  /\ \A k \in DOMAIN content[densityFBO.read] : content[densityFBO.read][k] # "splat"
  /\ Len(content[velocityFBO.read]) = MaxFrames

\* C28: a frame splats only with a displacement from a previous position that
\* the frame rendered just before it recorded, whatever changes of
\* enablePainting and shaderType happen while the pointer stays on the card.
C28_PreviousPositionOneFrameOld ==
  [][(time' = time + 1 /\ PointerEvents(passes', "delta") # {} /\ HasSplat(passes')) =>
       \E j \in DOMAIN passes : passes[j].ev = "pointer"]_vars

\* C25: for every column count N >= 1 and pattern index i in 0..5 the regular
\* column is max(0, N - 1 - i) for i up to 4 and 0 for i = 5; it lies in
\* 0..N-1 and does not increase with i.
ColumnSelected(t) == t.branch = "column"

C25_RegularColumnReversed ==
  /\ ColumnSelected(tile) =>
       /\ tile.regularAtlasIndex =
            IF tile.patternIndex = 5 THEN 0
            ELSE Max(0, tile.columns - 1 - tile.patternIndex)
       /\ tile.regularAtlasIndex \in 0..(tile.columns - 1)
  /\ (ColumnSelected(tile) /\ ColumnSelected(prevTile)
      /\ tile.columns = prevTile.columns /\ prevTile.patternIndex <= tile.patternIndex) =>
       tile.regularAtlasIndex <= prevTile.regularAtlasIndex

C25_Witness ==
  /\ ColumnSelected(tile) /\ ColumnSelected(prevTile)
  /\ tile.columns = 3 /\ prevTile.columns = 3
  /\ prevTile.patternIndex = 1 /\ prevTile.regularAtlasIndex = 1
  /\ tile.patternIndex = 5 /\ tile.regularAtlasIndex = 0

\* C26: every atlas sample of the pattern pass, the fallback re-sample and the
\* alternate-atlas sample included, reads a column in 0..N-1 of the atlas of N
\* columns it samples.
C26_SampledColumnsInAtlas ==
  \A sample \in tile.samples : sample[3] >= 1 /\ sample[2] \in 0..(sample[3] - 1)

C26_Witness ==
  /\ card = "CardAsciiPattern"
  /\ tile.branch = "pattern"
  /\ tile.patternIndex = 4
  /\ <<"fallback", 1, 4>> \in tile.samples
  /\ <<"regular", 0, 4>> \in tile.samples
  /\ <<"alt", 4, 6>> \in tile.samples

\* C27: for every source luminance and wobble the pattern index and the
\* alternate pattern index are at most 4, the inverted luminance being at
\* most 0.85.
C27_IndicesAtMostFour ==
  tile.branch = "pattern" =>
    /\ tile.lum <= 850
    /\ tile.patternIndex <= 4
    /\ tile.altPatternIndex <= 4

C27_Witness ==
  /\ tile.branch = "pattern"
  /\ tile.color = Black
  /\ tile.timeOffset = -100
  /\ tile.lum = 850
  /\ tile.patternIndex = 4
  /\ tile.altPatternIndex = 4

\* C29: once no load is outstanding, every texture in use is the one the
\* current props request, in whatever order the callbacks of the loads ran.
C29_LastRequestWins ==
  pending = {} => \A r \in Requests(card, config) : loaded[r[1]] = r[2]

\* C30: every frame that is not skipped leaves the renderer's target and
\* autoClear as it found them, and within the frame autoClear is off for the
\* display pass and as found for every other pass.
C30_RendererRestored ==
  [][time' = time + 1 =>
       /\ gl' = gl
       /\ HasPass(passes', "display")
       /\ \A i \in DOMAIN passes' :
            IsRender(passes'[i]) =>
              passes'[i].autoClear = IF passes'[i].what = "display" THEN FALSE
                                     ELSE gl.autoClear]_vars

C30_Witness ==
  /\ card = "Card3DAscii"
  /\ shaderType = "crt"
  /\ time = 2
  /\ gl = [target |-> "hostTarget", autoClear |-> TRUE]
  /\ \E i \in DOMAIN passes :
       /\ IsRender(passes[i]) /\ passes[i].what = "display"
       /\ passes[i].target = "null" /\ ~passes[i].autoClear
  /\ \E i \in DOMAIN passes :
       /\ IsRender(passes[i]) /\ passes[i].what = "custom" /\ passes[i].autoClear

====
